---- MODULE Spec2Model ----
(***************************************************************************)
(* MarineTraffic MCP server: the API client (retry/backoff, error          *)
(* classification, credential injection) and the identifier handling of    *)
(* the tool handlers and resource readers that call it.                    *)
(*                                                                         *)
(* Strings whose characters matter (identifiers, credentials) are          *)
(* sequences of one-character strings; opaque texts are TLA+ strings.      *)
(***************************************************************************)
EXTENDS Integers, Sequences, FiniteSets, TLC

VARIABLES env, apiClient, built, ctor, call, ops

vars == <<env, apiClient, built, ctor, call, ops>>

(***************************************************************************)
(* Bounds of the model                                                     *)
(***************************************************************************)
\* longest run of digits in an identifier string
MaxDigits == 10

(***************************************************************************)
(* Program constants                                                       *)
(***************************************************************************)
retryDelay == 1000
maxRetries == 3

ENDPOINTS ==
  [VESSEL_POSITION |-> "/exportvessel/v:5/position",
   VESSEL_DETAILS  |-> "/exportvessel/v:4/vesseldetails",
   VESSEL_SEARCH   |-> "/exportvessel/v:5/ps01",
   VESSELS_IN_AREA |-> "/exportvessel/v:5/ps02"]

ERROR_MESSAGES ==
  [MISSING_API_KEY     |-> "MarineTraffic API key is required",
   RATE_LIMIT_EXCEEDED |-> "Rate limit exceeded for MarineTraffic API",
   INVALID_API_KEY     |-> "Invalid MarineTraffic API key",
   API_ERROR           |-> "MarineTraffic API error",
   NETWORK_ERROR       |-> "Network error while connecting to MarineTraffic API"]

(***************************************************************************)
(* Strings and regular expressions                                         *)
(***************************************************************************)
Digit == {"0", "1", "2", "3", "4", "5", "6", "7", "8", "9"}

\* /^\d{n}$/.test(s)
IsDigits(s, n) == Len(s) = n /\ \A i \in 1..Len(s) : s[i] \in Digit

\* s.startsWith('IMO')
StartsWithIMO(s) == Len(s) >= 3 /\ s[1] = "I" /\ s[2] = "M" /\ s[3] = "O"

\* s.substring(3)
Substring3(s) == SubSeq(s, 4, Len(s))

\* /^IMO\d{7}$/.test(s)
IsPrefixedIMO(s) == StartsWithIMO(s) /\ IsDigits(Substring3(s), 7)

\* truthiness of a JavaScript string / number
StrTruthy(s) == Len(s) > 0
NumTruthy(n) == n # 0

(***************************************************************************)
(* Errors and results                                                      *)
(***************************************************************************)
\* new McpError(code, message); the message is kept as its parts
McpError(code, message) == [mcp |-> TRUE, code |-> code, message |-> message]

\* a failure that is not an McpError (thrown by a library)
RawError == [mcp |-> FALSE, code |-> "none", message |-> <<"raw">>]

NoError == [mcp |-> FALSE, code |-> "none", message |-> <<>>]

NoData == [t |-> "undefined", v |-> ""]

Resolved(data) == [settled |-> TRUE, ok |-> TRUE, data |-> data, error |-> NoError]
Rejected(error) == [settled |-> TRUE, ok |-> FALSE, data |-> NoData, error |-> error]
Pending == [settled |-> FALSE, ok |-> FALSE, data |-> NoData, error |-> NoError]

(***************************************************************************)
(* The upstream API: what one HTTP attempt can end with                    *)
(***************************************************************************)
HttpStatuses == {200, 401, 404, 429, 500}

\* response bodies: v is the body text upstream sent, t is what axios hands
\* over for it (JSON text is parsed into an object, other text stays a string)
Bodies == {[t |-> "string", v |-> "quota exceeded"],
           [t |-> "object", v |-> "{\"id\":\"A\"}"],
           [t |-> "object", v |-> "{\"id\":\"B\"}"]}

\* the outcome of `await this.axiosInstance.get(endpoint, config)`
\* ("noResponse": an AxiosError without response, code ECONNABORTED being the
\* 10 s timeout; "other": a failure that is not an AxiosError)
Outcomes ==
  [kind : {"response"}, code : {""}, status : HttpStatuses, data : Bodies]
    \cup [kind : {"noResponse"}, code : {"ECONNREFUSED", "ECONNABORTED"},
          status : {0}, data : {NoData}]
    \cup [kind : {"other"}, code : {""}, status : {0}, data : {NoData}]

NoOutcome == [kind |-> "none", code |-> "", status |-> 0, data |-> NoData]

\* `${value}` of a template literal
TemplateString(d) == IF d.t = "string" THEN d.v ELSE "[object Object]"

(***************************************************************************)
(* The API client                                                          *)
(***************************************************************************)
NoClient == [null |-> TRUE, apiKey |-> <<>>]

\* a credential as found in the environment or handed to the constructor
Truthy(e) == e.defined /\ StrTruthy(e.str)

\* constructor(apiKey)
NewClient(e) ==
  IF ~Truthy(e)
    THEN [ok |-> FALSE, client |-> NoClient,
          error |-> McpError("InvalidParams", <<ERROR_MESSAGES.MISSING_API_KEY>>)]
    ELSE [ok |-> TRUE, client |-> [null |-> FALSE, apiKey |-> e.str],
          error |-> NoError]

NoParams == [k \in {} |-> 0]

\* (variant: the caller's parameters spread last)
InterceptorCallerWins(client, params) == params @@ ("apiKey" :> client.apiKey)

\* the request interceptor installed by the constructor
Interceptor(client, params) == ("apiKey" :> client.apiKey) @@ params

OpIds == {1, 2}

\* one logical request: the call made on the client (input), makeRequest's
\* arguments, the query of the attempt in flight (sent), the status each
\* finished attempt ended with (log), the last outcome, the waits scheduled
IdleOp ==
  [pc |-> "idle", input |-> <<>>, endpoint |-> "", params |-> NoParams,
   retryCount |-> 0, attempts |-> 0, sent |-> NoParams, log |-> <<>>,
   last |-> NoOutcome, delays |-> <<>>, result |-> Pending]

\* makeRequest(endpoint, params, retryCount) up to its `await get`
MakeRequest(client, op, endpoint, params, retryCount) ==
  [op EXCEPT !.pc = "inflight", !.endpoint = endpoint, !.params = params,
             !.retryCount = retryCount, !.attempts = @ + 1,
             !.sent = Interceptor(client, params)]

\* 2^n
RECURSIVE Pow2(_)
Pow2(n) == IF n = 0 THEN 1 ELSE 2 * Pow2(n - 1)

\* (variants: no ceiling; ceiling off by one; retry without a response)
ShouldRetryUnbounded(op, r) == r.kind = "response" /\ r.status = 429

ShouldRetryInclusive(op, r) ==
  r.kind = "response" /\ r.status = 429 /\ op.retryCount <= maxRetries

ShouldRetryNetwork(op, r) ==
  /\ r.kind \in {"response", "noResponse"}
  /\ r.kind = "response" => r.status = 429
  /\ op.retryCount < maxRetries

\* (variant: one retry counter kept on the client, counting the retries of
\* every operation in flight)
ShouldRetryShared(op, r) ==
  /\ r.kind = "response" /\ r.status = 429
  /\ ops[1].retryCount + ops[2].retryCount < maxRetries

\* the condition under which makeRequest retries
ShouldRetry(op, r) ==
  r.kind = "response" /\ r.status = 429 /\ op.retryCount < maxRetries

\* (variant: linear growth)
BackoffDelayLinear(op) == retryDelay * (op.retryCount + 1)

\* the delay before the retry
BackoffDelay(op) == retryDelay * Pow2(op.retryCount)

\* (variant: the 401 branch after the generic branch)
ClassifyErrorGenericFirst(r) ==
  IF r.kind \in {"response", "noResponse"}
    THEN IF r.kind = "response"
           THEN McpError("InternalError",
                         <<ERROR_MESSAGES.API_ERROR, r.status, TemplateString(r.data)>>)
         ELSE McpError("InternalError", <<ERROR_MESSAGES.NETWORK_ERROR>>)
    ELSE RawError

\* the classification of a failed attempt that is not retried
ClassifyError(r) ==
  IF r.kind \in {"response", "noResponse"}
    THEN IF r.kind = "response" /\ r.status = 401
           THEN McpError("InvalidRequest", <<ERROR_MESSAGES.INVALID_API_KEY>>)
         ELSE IF r.kind = "response"
           THEN McpError("InternalError",
                         <<ERROR_MESSAGES.API_ERROR, r.status, TemplateString(r.data)>>)
         ELSE McpError("InternalError", <<ERROR_MESSAGES.NETWORK_ERROR>>)
    ELSE RawError

\* makeRequest from the end of its `await get` on
OnOutcome(op, r) ==
  LET logged == [op EXCEPT !.log = Append(@, r.status), !.last = r] IN
  IF r.kind = "response" /\ r.status \in 200..299
    THEN [logged EXCEPT !.pc = "settled", !.result = Resolved(r.data)]
  ELSE IF ShouldRetry(op, r)
    THEN [logged EXCEPT !.pc = "backoff", !.delays = Append(@, BackoffDelay(op))]
  ELSE [logged EXCEPT !.pc = "settled", !.result = Rejected(ClassifyError(r))]

\* (variant: length test only)
IdentifierParamsByLength(identifier) ==
  IF Len(identifier) = 9 THEN [mmsi |-> identifier] ELSE [imo |-> identifier]

\* the query parameters getVesselPosition / getVesselDetails build
IdentifierParams(identifier) ==
  IF IsDigits(identifier, 9) THEN [mmsi |-> identifier] ELSE [imo |-> identifier]

(***************************************************************************)
(* Inputs                                                                  *)
(***************************************************************************)
\* a run of n digits
DigitRun(n) == [i \in 1..n |-> IF i % 2 = 1 THEN "1" ELSE "0"]

IdPrefixes == {<<>>, <<"I", "M", "O">>, <<"i", "m", "o">>, <<"I", "M">>}
IdSuffixes == {<<>>, <<"x">>}

Identifiers ==
  {p \o DigitRun(n) \o s : p \in IdPrefixes, n \in 0..MaxDigits, s \in IdSuffixes}

Credentials ==
  {[defined |-> FALSE, str |-> <<>>],
   [defined |-> TRUE, str |-> <<>>],
   [defined |-> TRUE, str |-> <<"k", "1">>],
   [defined |-> TRUE, str |-> <<"k", "2">>]}

\* an optional key of an argument object: <<>> is absent, <<v>> is present
Field(k, c) == IF c = <<>> THEN NoParams ELSE k :> c[1]

NameChoices == {<<>>, << <<>> >>, << <<"E", "V", "E", "R">> >>}
MmsiChoices == {<<>>, << <<>> >>, << DigitRun(9) >>, << DigitRun(8) >>}
ImoChoices ==
  {<<>>, << <<>> >>, << <<"I", "M", "O">> \o DigitRun(7) >>, << DigitRun(7) >>,
   << DigitRun(6) >>}
ShipTypeChoices == {<<>>, <<0>>, <<7>>}

\* search arguments as they arrive at the tool (`arguments as any`)
SearchArgs ==
  {Field("vessel_name", n) @@ Field("mmsi", m) @@ Field("imo", i)
     @@ Field("ship_type", t) :
     n \in NameChoices, m \in MmsiChoices, i \in ImoChoices,
     t \in ShipTypeChoices}

\* search parameters handed to the client directly (any object at run time)
SearchParams ==
  {Field("vessel_name", n) @@ Field("mmsi", m) @@ Field("imo", i)
     @@ Field("ship_type", t) @@ Field("apiKey", a) :
     n \in {<<>>, << <<"E", "V", "E", "R">> >>}, m \in {<<>>, << DigitRun(9) >>},
     i \in {<<>>, << DigitRun(7) >>}, t \in {<<>>, <<7>>},
     a \in {<<>>, << <<>> >>}}

\* JavaScript numbers of area queries are fixed-point, in tenths:
\* Num(n) is the number n, and 378 is 37.8
Num(n) == n * 10

Latitudes == {-901, Num(-90), 378, Num(90), 905}
Longitudes == {-1801, Num(-180), -1224, Num(180)}
Radii == {Num(0), 9, Num(1), Num(10), Num(100), 1001}

\* area parameters handed to the client directly
AreaParams ==
  {[center_lat |-> la, center_lon |-> lo, radius |-> ra]
     @@ Field("min_ship_type", mi) @@ Field("max_ship_type", ma) :
     la \in {Num(-91), 378}, lo \in {Num(-181), Num(180)},
     ra \in {Num(0), Num(10), Num(101)},
     mi \in {<<>>, <<7>>}, ma \in {<<>>, <<8>>}}

IdleCall == [pc |-> "idle", kind |-> "none", arg |-> <<>>, outcome |-> Pending]

(***************************************************************************)
(* Initial state                                                           *)
(***************************************************************************)
Init ==
  /\ env \in Credentials
  /\ apiClient = NoClient
  /\ built = 0
  /\ ctor = {}
  /\ call = IdleCall
  /\ ops = [o \in OpIds |-> IdleOp]

(***************************************************************************)
(* The HTTP layer and the retry timer, shared by every operation           *)
(***************************************************************************)
\* an attempt of operation o ends with outcome r
Respond(o, r) ==
  /\ ops[o].pc = "inflight"
  /\ ops' = [ops EXCEPT ![o] = OnOutcome(ops[o], r)]
  /\ UNCHANGED <<env, apiClient, built, ctor, call>>

\* (variant: the promise of the wait is never resolved)
BackoffElapsedUnresolved(o) ==
  /\ ops[o].pc = "backoff"
  /\ UNCHANGED vars

\* the backoff timer of operation o fires: makeRequest(endpoint, params, retryCount + 1)
BackoffElapsed(o) ==
  /\ ops[o].pc = "backoff"
  /\ ops' = [ops EXCEPT ![o] =
               MakeRequest(apiClient, ops[o], ops[o].endpoint, ops[o].params,
                           ops[o].retryCount + 1)]
  /\ UNCHANGED <<env, apiClient, built, ctor, call>>

\* the first attempt of a logical request made with `input`
FirstAttempt(client, input, endpoint, params) ==
  MakeRequest(client, [IdleOp EXCEPT !.input = input], endpoint, params, 0)

\* the four operations of the client, up to the first `await`
StartVesselPosition(client, identifier) ==
  FirstAttempt(client, identifier, ENDPOINTS.VESSEL_POSITION, IdentifierParams(identifier))

StartVesselDetails(client, identifier) ==
  FirstAttempt(client, identifier, ENDPOINTS.VESSEL_DETAILS, IdentifierParams(identifier))

StartSearchVessels(client, searchParams) ==
  FirstAttempt(client, searchParams, ENDPOINTS.VESSEL_SEARCH, searchParams)

StartVesselsInArea(client, areaParams) ==
  FirstAttempt(client, areaParams, ENDPOINTS.VESSELS_IN_AREA, areaParams)

(***************************************************************************)
(* The client used directly (one logical request at a time)                *)
(***************************************************************************)
\* the client as a library: no server process, no environment
InitClient ==
  /\ env = [defined |-> FALSE, str |-> <<>>]
  /\ apiClient = NoClient
  /\ built = 0
  /\ ctor = {}
  /\ call = IdleCall
  /\ ops = [o \in OpIds |-> IdleOp]

ClientFree == ~apiClient.null /\ ops[1].pc = "idle"

\* new MarineTrafficApiClient(e)
Construct(e) ==
  /\ apiClient.null
  /\ LET n == NewClient(e) IN
       /\ apiClient' = n.client
       /\ ctor' = ctor \cup {[arg |-> e, ok |-> n.ok, error |-> n.error]}
       /\ built' = IF n.ok THEN built + 1 ELSE built
  /\ UNCHANGED <<env, call, ops>>

\* client.getVesselPosition(identifier)
GetVesselPosition(identifier) ==
  /\ ClientFree
  /\ ops' = [ops EXCEPT ![1] = StartVesselPosition(apiClient, identifier)]
  /\ UNCHANGED <<env, apiClient, built, ctor, call>>

\* client.getVesselDetails(identifier)
GetVesselDetails(identifier) ==
  /\ ClientFree
  /\ ops' = [ops EXCEPT ![1] = StartVesselDetails(apiClient, identifier)]
  /\ UNCHANGED <<env, apiClient, built, ctor, call>>

\* client.searchVessels(searchParams)
SearchVessels(searchParams) ==
  /\ ClientFree
  /\ ops' = [ops EXCEPT ![1] = StartSearchVessels(apiClient, searchParams)]
  /\ UNCHANGED <<env, apiClient, built, ctor, call>>

\* client.getVesselsInArea(areaParams)
GetVesselsInArea(areaParams) ==
  /\ ClientFree
  /\ ops' = [ops EXCEPT ![1] = StartVesselsInArea(apiClient, areaParams)]
  /\ UNCHANGED <<env, apiClient, built, ctor, call>>

\* the caller takes the settled promise's value or error
Consume ==
  /\ ops[1].pc = "settled"
  /\ ops' = [ops EXCEPT ![1] = IdleOp]
  /\ UNCHANGED <<env, apiClient, built, ctor, call>>

NextClient ==
  \/ \E e \in Credentials : Construct(e)
  \/ \E id \in Identifiers : GetVesselPosition(id)
  \/ \E id \in Identifiers : GetVesselDetails(id)
  \/ \E a \in SearchParams : SearchVessels(a)
  \/ \E a \in AreaParams : GetVesselsInArea(a)
  \/ \E r \in Outcomes : Respond(1, r)
  \/ BackoffElapsed(1)
  \/ Consume

SpecClient == InitClient /\ [][NextClient]_vars

\* the same, where the attempt in flight always ends (the axios instance has a
\* timeout of 10000 ms) and the timer of the backoff always fires (setTimeout)
FairSpecClient ==
  /\ SpecClient
  /\ WF_vars(\E r \in Outcomes : Respond(1, r))
  /\ WF_vars(BackoffElapsed(1))

(***************************************************************************)
(* The server: tool handlers and resource readers (one request at a time)  *)
(***************************************************************************)
\* (variant: without `if (!this.apiClient)`)
GetApiClientAlwaysNew ==
  IF ~Truthy(env)
    THEN [ok |-> FALSE, made |-> FALSE, client |-> NoClient,
          error |-> McpError("InvalidRequest",
                             <<"MARINETRAFFIC_API_KEY environment variable is required">>)]
  ELSE [ok |-> NewClient(env).ok, made |-> TRUE, client |-> NewClient(env).client,
        error |-> NewClient(env).error]

\* MarineTrafficServer.getApiClient
GetApiClient ==
  IF ~apiClient.null
    THEN [ok |-> TRUE, made |-> FALSE, client |-> apiClient, error |-> NoError]
  ELSE IF ~Truthy(env)
    THEN [ok |-> FALSE, made |-> FALSE, client |-> NoClient,
          error |-> McpError("InvalidRequest",
                             <<"MARINETRAFFIC_API_KEY environment variable is required">>)]
  ELSE [ok |-> NewClient(env).ok, made |-> TRUE, client |-> NewClient(env).client,
        error |-> NewClient(env).error]

\* the effect of getApiClient on the server's state
Provide(g) ==
  /\ apiClient' = g.client
  /\ built' = IF g.made /\ g.ok THEN built + 1 ELSE built
  /\ ctor' = IF g.made THEN ctor \cup {[arg |-> env, ok |-> g.ok, error |-> g.error]}
             ELSE ctor

\* the handler throws before any call on the client
Fail(kind, arg, error) ==
  /\ call' = [pc |-> "done", kind |-> kind, arg |-> arg, outcome |-> Rejected(error)]
  /\ UNCHANGED ops

Running(kind, arg) ==
  call' = [pc |-> "running", kind |-> kind, arg |-> arg, outcome |-> Pending]

\* the identifier check of getVesselPositionTool and getVesselDetailsTool
ToolAcceptsIdentifier(identifier) ==
  IsDigits(identifier, 9) \/ IsPrefixedIMO(identifier)

\* the identifier check of getVesselResource
ResourceAcceptsIdentifier(identifier) ==
  IsDigits(identifier, 9) \/ IsPrefixedIMO(identifier) \/ IsDigits(identifier, 7)

\* (variant: the prefix is left in place)
CleanIdentifierKeep(identifier) == identifier

\* identifier.startsWith('IMO') ? identifier.substring(3) : identifier
CleanIdentifier(identifier) ==
  IF StartsWithIMO(identifier) THEN Substring3(identifier) ELSE identifier

InvalidToolIdentifier ==
  McpError("InvalidParams",
           <<"Invalid vessel identifier. Must be a 9-digit MMSI number or IMO number (format: IMO1234567)">>)

InvalidResourceIdentifier ==
  McpError("InvalidRequest",
           <<"Invalid vessel identifier. Must be a 9-digit MMSI number or IMO number (optionally prefixed with \"IMO\")">>)

\* CallTool handler, 'get_vessel_position': getVesselPositionTool
GetVesselPositionTool(identifier) ==
  /\ call.pc = "idle"
  /\ LET g == GetApiClient IN
       /\ Provide(g)
       /\ IF ~g.ok
            THEN Fail("get_vessel_position", identifier, g.error)
          ELSE IF ~ToolAcceptsIdentifier(identifier)
            THEN Fail("get_vessel_position", identifier, InvalidToolIdentifier)
          ELSE /\ Running("get_vessel_position", identifier)
               /\ ops' = [ops EXCEPT ![1] =
                            StartVesselPosition(g.client, CleanIdentifier(identifier))]
  /\ UNCHANGED env

\* CallTool handler, 'get_vessel_details': getVesselDetailsTool
GetVesselDetailsTool(identifier) ==
  /\ call.pc = "idle"
  /\ LET g == GetApiClient IN
       /\ Provide(g)
       /\ IF ~g.ok
            THEN Fail("get_vessel_details", identifier, g.error)
          ELSE IF ~ToolAcceptsIdentifier(identifier)
            THEN Fail("get_vessel_details", identifier, InvalidToolIdentifier)
          ELSE /\ Running("get_vessel_details", identifier)
               /\ ops' = [ops EXCEPT ![1] =
                            StartVesselDetails(g.client, CleanIdentifier(identifier))]
  /\ UNCHANGED env

\* args.k as a condition: absent, '' and 0 are falsy
HasTruthy(args, k) ==
  k \in DOMAIN args /\ (IF k = "ship_type" THEN NumTruthy(args[k]) ELSE StrTruthy(args[k]))

\* (variant: without the check that a criterion is given)
SearchToolErrorFormatOnly(args) ==
  IF HasTruthy(args, "mmsi") /\ ~IsDigits(args.mmsi, 9)
    THEN McpError("InvalidParams", <<"Invalid MMSI number. Must be a 9-digit number">>)
  ELSE IF HasTruthy(args, "imo") /\ ~IsPrefixedIMO(args.imo) /\ ~IsDigits(args.imo, 7)
    THEN McpError("InvalidParams",
                  <<"Invalid IMO number. Must be a 7-digit number, optionally prefixed with \"IMO\"">>)
  ELSE NoError

\* the checks of searchVesselsTool, in order: the error thrown, or NoError
SearchToolError(args) ==
  IF /\ ~HasTruthy(args, "vessel_name") /\ ~HasTruthy(args, "mmsi")
     /\ ~HasTruthy(args, "imo") /\ ~HasTruthy(args, "ship_type")
    THEN McpError("InvalidParams",
                  <<"At least one search parameter (vessel_name, mmsi, imo, or ship_type) must be provided">>)
  ELSE IF HasTruthy(args, "mmsi") /\ ~IsDigits(args.mmsi, 9)
    THEN McpError("InvalidParams", <<"Invalid MMSI number. Must be a 9-digit number">>)
  ELSE IF HasTruthy(args, "imo") /\ ~IsPrefixedIMO(args.imo) /\ ~IsDigits(args.imo, 7)
    THEN McpError("InvalidParams",
                  <<"Invalid IMO number. Must be a 7-digit number, optionally prefixed with \"IMO\"">>)
  ELSE NoError

\* args after `args.imo = args.imo.substring(3)`
CleanSearchArgs(args) ==
  IF HasTruthy(args, "imo") /\ StartsWithIMO(args.imo)
    THEN [args EXCEPT !.imo = Substring3(@)]
    ELSE args

\* CallTool handler, 'search_vessels': searchVesselsTool
SearchVesselsTool(args) ==
  /\ call.pc = "idle"
  /\ LET g == GetApiClient IN
       /\ Provide(g)
       /\ IF ~g.ok
            THEN Fail("search_vessels", args, g.error)
          ELSE IF SearchToolError(args) # NoError
            THEN Fail("search_vessels", args, SearchToolError(args))
          ELSE /\ Running("search_vessels", args)
               /\ ops' = [ops EXCEPT ![1] =
                            StartSearchVessels(g.client, CleanSearchArgs(args))]
  /\ UNCHANGED env

\* (variant: the lower bound of the radius is 0)
AreaToolErrorRadiusFromZero(args) ==
  IF args.latitude < Num(-90) \/ args.latitude > Num(90)
    THEN McpError("InvalidParams", <<"Invalid latitude. Must be between -90 and 90">>)
  ELSE IF args.longitude < Num(-180) \/ args.longitude > Num(180)
    THEN McpError("InvalidParams", <<"Invalid longitude. Must be between -180 and 180">>)
  ELSE IF args.radius < Num(0) \/ args.radius > Num(100)
    THEN McpError("InvalidParams",
                  <<"Invalid radius. Must be between 1 and 100 nautical miles">>)
  ELSE NoError

\* the checks of getVesselsInAreaTool, in order: the error thrown, or NoError
AreaToolError(args) ==
  IF args.latitude < Num(-90) \/ args.latitude > Num(90)
    THEN McpError("InvalidParams", <<"Invalid latitude. Must be between -90 and 90">>)
  ELSE IF args.longitude < Num(-180) \/ args.longitude > Num(180)
    THEN McpError("InvalidParams", <<"Invalid longitude. Must be between -180 and 180">>)
  ELSE IF args.radius < Num(1) \/ args.radius > Num(100)
    THEN McpError("InvalidParams",
                  <<"Invalid radius. Must be between 1 and 100 nautical miles">>)
  ELSE NoError

\* the AreaParams getVesselsInAreaTool builds
AreaToolParams(args) ==
  [center_lat |-> args.latitude, center_lon |-> args.longitude, radius |-> args.radius]
    @@ (IF "min_ship_type" \in DOMAIN args
          THEN "min_ship_type" :> args.min_ship_type ELSE NoParams)
    @@ (IF "max_ship_type" \in DOMAIN args
          THEN "max_ship_type" :> args.max_ship_type ELSE NoParams)

\* arguments of get_vessels_in_area
AreaArgs ==
  {[latitude |-> la, longitude |-> lo, radius |-> ra]
     @@ Field("min_ship_type", mi) @@ Field("max_ship_type", ma) :
     la \in Latitudes, lo \in Longitudes, ra \in Radii,
     mi \in {<<>>, <<7>>}, ma \in {<<>>, <<8>>}}

\* CallTool handler, 'get_vessels_in_area': getVesselsInAreaTool
GetVesselsInAreaTool(args) ==
  /\ call.pc = "idle"
  /\ LET g == GetApiClient IN
       /\ Provide(g)
       /\ IF ~g.ok
            THEN Fail("get_vessels_in_area", args, g.error)
          ELSE IF AreaToolError(args) # NoError
            THEN Fail("get_vessels_in_area", args, AreaToolError(args))
          ELSE /\ Running("get_vessels_in_area", args)
               /\ ops' = [ops EXCEPT ![1] =
                            StartVesselsInArea(g.client, AreaToolParams(args))]
  /\ UNCHANGED env

\* the text after 'vessel://' matches ([^/]+)$
MatchesVesselUri(tail) == Len(tail) >= 1 /\ \A i \in 1..Len(tail) : tail[i] # "/"

\* decodeURIComponent on the escapes that occur in the inputs: %30..%39 are
\* the digits, %2F is '/', a '%' not followed by two hex digits is a URIError
RECURSIVE DecodeURIComponent(_)
DecodeURIComponent(t) ==
  IF t = <<>> THEN [ok |-> TRUE, str |-> <<>>]
  ELSE IF Head(t) # "%"
    THEN LET rest == DecodeURIComponent(Tail(t))
         IN [ok |-> rest.ok, str |-> <<Head(t)>> \o rest.str]
  ELSE IF Len(t) >= 3 /\ ((t[2] = "3" /\ t[3] \in Digit) \/ (t[2] = "2" /\ t[3] = "F"))
    THEN LET rest == DecodeURIComponent(SubSeq(t, 4, Len(t)))
         IN [ok |-> rest.ok,
             str |-> <<IF t[2] = "3" THEN t[3] ELSE "/">> \o rest.str]
  ELSE [ok |-> FALSE, str |-> <<>>]

\* a non-McpError caught by a handler's catch block
Wrapped(prefix, detail) == McpError("InternalError", <<prefix, detail>>)

\* texts after 'vessel://' in the URIs read
ResourceTails ==
  Identifiers \cup
    {<<"%", "3", "1">> \o DigitRun(8), <<"I", "M", "O", "%", "3", "1">> \o DigitRun(6),
     <<"1", "%", "2", "F">> \o DigitRun(7), <<"1", "/">> \o DigitRun(7),
     DigitRun(8) \o <<"%">>}

\* ReadResource handler, 'vessel://...': getVesselResource
GetVesselResource(tail) ==
  /\ call.pc = "idle"
  /\ LET g == GetApiClient
         identifier == DecodeURIComponent(tail)
         cleanIdentifier == CleanIdentifier(identifier.str)
     IN
       /\ Provide(g)
       /\ IF ~g.ok
            THEN Fail("vessel", tail, g.error)
          ELSE IF ~MatchesVesselUri(tail)
            THEN Fail("vessel", tail,
                      McpError("InvalidRequest", <<"Invalid vessel resource URI">>))
          ELSE IF ~identifier.ok
            THEN Fail("vessel", tail,
                      Wrapped("Error retrieving vessel resource", "URI malformed"))
          ELSE IF ~ResourceAcceptsIdentifier(identifier.str)
            THEN Fail("vessel", tail, InvalidResourceIdentifier)
          ELSE /\ Running("vessel", tail)
               /\ ops' = [ops EXCEPT
                            ![1] = StartVesselPosition(g.client, cleanIdentifier),
                            ![2] = StartVesselDetails(g.client, cleanIdentifier)]
  /\ UNCHANGED env

\* the position of digit character c in "0123456789", less one
DigitValue(c) == CHOOSE n \in 0..9 : <<"0", "1", "2", "3", "4", "5", "6", "7", "8", "9">>[n + 1] = c

\* the length of the longest prefix of s made of digits
RECURSIVE DigitPrefixLen(_)
DigitPrefixLen(s) ==
  IF s = <<>> \/ Head(s) \notin Digit THEN 0 ELSE 1 + DigitPrefixLen(Tail(s))

\* the value of a string of digits
RECURSIVE DigitsValue(_)
DigitsValue(s) ==
  IF s = <<>> THEN 0 ELSE DigitsValue(SubSeq(s, 1, Len(s) - 1)) * 10 + DigitValue(s[Len(s)])

\* parseFloat(s) for texts without leading blanks or exponent and with at
\* most one digit after the point: an optional sign, digits, an optional
\* fraction; what follows is ignored; NaN when no digit is found
ParseFloat(s) ==
  LET signed == s # <<>> /\ Head(s) \in {"-", "+"}
      body == IF signed THEN Tail(s) ELSE s
      n == DigitPrefixLen(body)
      rest == SubSeq(body, n + 1, Len(body))
      m == IF rest # <<>> /\ Head(rest) = "." THEN DigitPrefixLen(Tail(rest)) ELSE 0
      magnitude == DigitsValue(SubSeq(body, 1, n)) * 10
                     + (IF m > 0 THEN DigitValue(rest[2]) ELSE 0)
  IN IF n = 0 /\ m = 0
       THEN [nan |-> TRUE, val |-> 0]
       ELSE [nan |-> FALSE,
             val |-> IF signed /\ Head(s) = "-" THEN 0 - magnitude ELSE magnitude]

\* the texts after 'vessels://area/' match ([^/]+)/([^/]+)/([^/]+)$
MatchesAreaUri(segments) == \A k \in 1..3 : MatchesVesselUri(segments[k])

\* the checks of getVesselsAreaResource, in order: the error thrown, or NoError
AreaResourceError(latitude, longitude, radius) ==
  IF latitude.nan \/ latitude.val < Num(-90) \/ latitude.val > Num(90)
    THEN McpError("InvalidRequest",
                  <<"Invalid latitude. Must be a number between -90 and 90">>)
  ELSE IF longitude.nan \/ longitude.val < Num(-180) \/ longitude.val > Num(180)
    THEN McpError("InvalidRequest",
                  <<"Invalid longitude. Must be a number between -180 and 180">>)
  ELSE IF radius.nan \/ radius.val < Num(1) \/ radius.val > Num(100)
    THEN McpError("InvalidRequest",
                  <<"Invalid radius. Must be a number between 1 and 100 nautical miles">>)
  ELSE NoError

LatitudeTexts ==
  {<<"-", "9", "0", ".", "1">>, <<"-", "9", "0">>, <<"3", "7", ".", "8">>,
   <<"9", "0", ".", "5">>, <<"n", "o", "r", "t", "h">>}
LongitudeTexts ==
  {<<"-", "1", "8", "0", ".", "1">>, <<"-", "1", "2", "2", ".", "4">>,
   <<"1", "8", "0">>, <<"1", "8", "1">>, <<"%">>}
RadiusTexts ==
  {<<"0", ".", "9">>, <<"1">>, <<"1", "0">>, <<"1", "0", "n", "m">>,
   <<"1", "0", "0", ".", "1">>, <<"%", "3", "5">>, <<"1", "/", "2">>, <<>>}

\* texts after 'vessels://area/' in the URIs read, cut at the first two '/'
AreaSegments ==
  {<<la, lo, ra>> : la \in LatitudeTexts, lo \in LongitudeTexts, ra \in RadiusTexts}

\* ReadResource handler, 'vessels://area/...': getVesselsAreaResource
GetVesselsAreaResource(segments) ==
  /\ call.pc = "idle"
  /\ LET g == GetApiClient
         lat == DecodeURIComponent(segments[1])
         lon == DecodeURIComponent(segments[2])
         rad == DecodeURIComponent(segments[3])
         latitude == ParseFloat(lat.str)
         longitude == ParseFloat(lon.str)
         radius == ParseFloat(rad.str)
     IN
       /\ Provide(g)
       /\ IF ~g.ok
            THEN Fail("vessels_area", segments, g.error)
          ELSE IF ~MatchesAreaUri(segments)
            THEN Fail("vessels_area", segments,
                      McpError("InvalidRequest", <<"Invalid vessels area resource URI">>))
          ELSE IF ~lat.ok \/ ~lon.ok \/ ~rad.ok
            THEN Fail("vessels_area", segments,
                      Wrapped("Error retrieving vessels in area", "URI malformed"))
          ELSE IF AreaResourceError(latitude, longitude, radius) # NoError
            THEN Fail("vessels_area", segments,
                      AreaResourceError(latitude, longitude, radius))
          ELSE /\ Running("vessels_area", segments)
               /\ ops' = [ops EXCEPT ![1] =
                            StartVesselsInArea(g.client,
                              [center_lat |-> latitude.val, center_lon |-> longitude.val,
                               radius |-> radius.val])]
  /\ UNCHANGED env

ToolKinds ==
  {"get_vessel_position", "get_vessel_details", "search_vessels", "get_vessels_in_area"}

CatchPrefix(kind) ==
  CASE kind = "get_vessel_position" -> "Error retrieving vessel position"
    [] kind = "get_vessel_details" -> "Error retrieving vessel details"
    [] kind = "search_vessels" -> "Error searching for vessels"
    [] kind = "get_vessels_in_area" -> "Error retrieving vessels in area"
    [] kind = "vessels_area" -> "Error retrieving vessels in area"
    [] OTHER -> "Error retrieving vessel resource"

\* formatting reads fields of a parsed payload; on a payload that is a plain
\* string it throws (toISOString of an invalid date, map of a non-array)
FormatThrows(kind, data) ==
  data.t = "string" /\ kind # "get_vessel_details"

\* (variant: the catch block without `if (error instanceof McpError) throw error`)
HandlerOutcomeWrapAll(kind, result) ==
  IF result.ok
    THEN IF FormatThrows(kind, result.data)
           THEN Rejected(Wrapped(CatchPrefix(kind), "format"))
           ELSE Resolved(result.data)
  ELSE Rejected(Wrapped(CatchPrefix(kind),
                        IF result.error.mcp THEN "MCP error" ELSE result.error.message[1]))

\* what a handler returns or throws once the client's promise has settled
HandlerOutcome(kind, result) ==
  IF result.ok
    THEN IF FormatThrows(kind, result.data)
           THEN Rejected(Wrapped(CatchPrefix(kind), "format"))
           ELSE Resolved(result.data)
  ELSE IF result.error.mcp
    THEN Rejected(result.error)
  ELSE Rejected(Wrapped(CatchPrefix(kind), result.error.message[1]))

\* a tool handler resumes after `await apiClient.<operation>(...)`
ToolSettles ==
  /\ call.pc = "running"
  /\ call.kind \in ToolKinds
  /\ ops[1].pc = "settled"
  /\ call' = [call EXCEPT !.pc = "done",
                          !.outcome = HandlerOutcome(call.kind, ops[1].result)]
  /\ UNCHANGED <<env, apiClient, built, ctor, ops>>

\* getVesselsAreaResource resumes after `await apiClient.getVesselsInArea(...)`
AreaResourceSettles ==
  /\ call.pc = "running"
  /\ call.kind = "vessels_area"
  /\ ops[1].pc = "settled"
  /\ call' = [call EXCEPT !.pc = "done",
                          !.outcome = HandlerOutcome(call.kind, ops[1].result)]
  /\ UNCHANGED <<env, apiClient, built, ctor, ops>>

\* `.catch(error => null)` on a branch of the combined view
BranchValue(result) == IF result.ok THEN result.data ELSE NoData

\* !value for a branch value
Falsy(data) == data.t = "undefined" \/ (data.t = "string" /\ data.v = "")

\* (variant: Promise.all without the two `.catch`, the first rejection is
\* what the handler's catch block sees)
ResourceSettlesUncaught ==
  /\ call.pc = "running"
  /\ call.kind = "vessel"
  /\ ops[1].pc = "settled"
  /\ ops[2].pc = "settled"
  /\ call' = [call EXCEPT
                !.pc = "done",
                !.outcome =
                  IF ~ops[1].result.ok THEN HandlerOutcome("vessel", ops[1].result)
                  ELSE IF ~ops[2].result.ok THEN HandlerOutcome("vessel", ops[2].result)
                  ELSE Resolved([t |-> "object", v |-> "combined",
                                 position |-> ops[1].result.data,
                                 details |-> ops[2].result.data])]
  /\ UNCHANGED <<env, apiClient, built, ctor, ops>>

\* getVesselResource resumes after `await Promise.all([...])`
ResourceSettles ==
  /\ call.pc = "running"
  /\ call.kind = "vessel"
  /\ ops[1].pc = "settled"
  /\ ops[2].pc = "settled"
  /\ LET position == BranchValue(ops[1].result)
         details == BranchValue(ops[2].result)
     IN call' = [call EXCEPT
                   !.pc = "done",
                   !.outcome =
                     IF Falsy(position) /\ Falsy(details)
                       THEN Rejected(McpError("InvalidRequest",
                                              <<"No data found for vessel with identifier">>))
                     ELSE IF ~Falsy(position) /\ FormatThrows("vessel", position)
                       THEN Rejected(Wrapped(CatchPrefix("vessel"), "format"))
                     ELSE Resolved([t |-> "object", v |-> "combined",
                                    position |-> position, details |-> details])]
  /\ UNCHANGED <<env, apiClient, built, ctor, ops>>

\* the reply is sent; the next request can be handled
Reply ==
  /\ call.pc = "done"
  /\ call' = IdleCall
  /\ ops' = [o \in OpIds |-> IdleOp]
  /\ UNCHANGED <<env, apiClient, built, ctor>>

Next ==
  \/ \E id \in Identifiers : GetVesselPositionTool(id)
  \/ \E id \in Identifiers : GetVesselDetailsTool(id)
  \/ \E a \in SearchArgs : SearchVesselsTool(a)
  \/ \E a \in AreaArgs : GetVesselsInAreaTool(a)
  \/ \E t \in ResourceTails : GetVesselResource(t)
  \/ \E g \in AreaSegments : GetVesselsAreaResource(g)
  \/ \E o \in OpIds, r \in Outcomes : Respond(o, r)
  \/ \E o \in OpIds : BackoffElapsed(o)
  \/ ToolSettles
  \/ ResourceSettles
  \/ AreaResourceSettles
  \/ Reply

Spec == Init /\ [][Next]_vars

(***************************************************************************)
(* Properties of one logical request                                       *)
(***************************************************************************)
Count429(log) == Cardinality({k \in 1..Len(log) : log[k] = 429})

RECURSIVE SumSeq(_)
SumSeq(q) == IF q = <<>> THEN 0 ELSE Head(q) + SumSeq(Tail(q))

IsHttpError(r) == r.kind = "response" /\ r.status \notin 200..299

\* C1: a logical request issues at most 4 HTTP attempts, and every attempt
\* that was followed by another one ended with status 429.
C1_AtMostFourAttempts ==
  \A o \in OpIds :
    /\ ops[o].attempts <= 4
    /\ ops[o].attempts - Len(ops[o].log) \in {0, 1}
    /\ \A k \in 1..Len(ops[o].log) : k < ops[o].attempts => ops[o].log[k] = 429

C1_Witness ==
  \E o \in OpIds :
    ops[o].attempts = 4 /\ ops[o].pc = "settled" /\ ops[o].log[3] = 429

\* C2: the waits scheduled after consecutive 429 responses are 1000, 2000 and
\* 4000 ms in that order, one per 429 and never more than three; the outcome
\* of the 4th attempt settles the request, so 429, 429, 429, 200 resolves with
\* the payload of the 200 after 7000 ms of waiting.
C2_BackoffSchedule ==
  \A o \in OpIds :
    LET op == ops[o] IN
    /\ Len(op.delays) = (IF Count429(op.log) > 3 THEN 3 ELSE Count429(op.log))
    /\ \A k \in 1..Len(op.delays) : op.delays[k] = <<1000, 2000, 4000>>[k]
    /\ Len(op.log) = 4 =>
         /\ op.pc = "settled"
         /\ op.attempts = 4
         /\ op.result.ok <=> op.last.status = 200
    /\ op.log = <<429, 429, 429, 200>> =>
         /\ op.result.ok
         /\ op.result.data = op.last.data
         /\ SumSeq(op.delays) = 7000

C2_Witness ==
  \E o \in OpIds :
    /\ ops[o].log = <<429, 429, 429, 200>>
    /\ ops[o].result.data = [t |-> "object", v |-> "{\"id\":\"B\"}"]

\* C3: after four consecutive 429 responses the request is rejected with the
\* generic API error carrying status 429, and no 5th attempt has been made.
C3_ExhaustedRetries ==
  \A o \in OpIds :
    LET op == ops[o] IN
    (Len(op.log) >= 4 /\ \A k \in 1..4 : op.log[k] = 429) =>
      /\ op.pc = "settled"
      /\ op.attempts = 4
      /\ ~op.result.ok
      /\ op.result.error.mcp
      /\ op.result.error.code = "InternalError"
      /\ op.result.error.message[1] = "MarineTraffic API error"
      /\ op.result.error.message[2] = 429

C3_Witness ==
  \E o \in OpIds : ops[o].log = <<429, 429, 429, 429>> /\ ops[o].pc = "settled"

\* C4: an attempt ending with 401, at any retry depth, rejects the request
\* with McpError InvalidRequest 'Invalid MarineTraffic API key'; it is the
\* last attempt and no wait is scheduled after it.
C4_UnauthorizedIsFinal ==
  \A o \in OpIds :
    LET op == ops[o] IN
    (op.last.kind = "response" /\ op.last.status = 401) =>
      /\ op.pc = "settled"
      /\ op.result = Rejected([mcp |-> TRUE, code |-> "InvalidRequest",
                               message |-> <<"Invalid MarineTraffic API key">>])
      /\ op.attempts = Len(op.log)
      /\ Len(op.delays) = Len(op.log) - 1

C4_Witness ==
  \E o \in OpIds : ops[o].log = <<429, 429, 429, 401>> /\ ops[o].pc = "settled"

\* C5: an HTTP error response that is neither a 401 nor a 429 with retries
\* remaining rejects the request at once with the API error carrying the
\* response's status code and its body; no further attempt follows.
C5_UpstreamErrorCarriesStatusAndBody ==
  \A o \in OpIds :
    LET op == ops[o] IN
    (/\ IsHttpError(op.last)
     /\ op.last.status # 401
     /\ ~(op.last.status = 429 /\ Len(op.log) <= 3)) =>
      /\ op.pc = "settled"
      /\ op.attempts = Len(op.log)
      /\ op.result.error.mcp
      /\ op.result.error.code = "InternalError"
      /\ op.result.error.message =
           <<"MarineTraffic API error", op.last.status, op.last.data.v>>

\* C6: an attempt that ends without any HTTP response (connection failure or
\* timeout), first or after 429 retries, rejects the request with the network
\* error; it is the last attempt and no wait is scheduled after it.
C6_TransportErrorIsFinal ==
  \A o \in OpIds :
    LET op == ops[o] IN
    op.last.kind = "noResponse" =>
      /\ op.pc = "settled"
      /\ op.result =
           Rejected([mcp |-> TRUE, code |-> "InternalError",
                     message |-> <<"Network error while connecting to MarineTraffic API">>])
      /\ op.attempts = Len(op.log)
      /\ Len(op.delays) = Len(op.log) - 1

C6_Witness ==
  \E o \in OpIds :
    /\ ops[o].log = <<429, 429, 0>>
    /\ ops[o].last.code = "ECONNABORTED"
    /\ ops[o].pc = "settled"

\* C8: for every identifier handed to getVesselPosition or getVesselDetails
\* the query carries exactly one of mmsi / imo, holding the identifier: mmsi
\* when the identifier is exactly 9 digits, imo otherwise.
C8_ExactlyOneIdentifierKey ==
  \A o \in OpIds :
    LET op == ops[o]
        id == op.input
        nine == Len(id) = 9 /\ \A i \in 1..Len(id) : id[i] \in Digit
    IN
    op.endpoint \in {"/exportvessel/v:5/position", "/exportvessel/v:4/vesseldetails"} =>
      /\ Cardinality(DOMAIN op.sent \cap {"mmsi", "imo"}) = 1
      /\ nine => ("mmsi" \in DOMAIN op.sent /\ op.sent.mmsi = id)
      /\ ~nine => ("imo" \in DOMAIN op.sent /\ op.sent.imo = id)

C8_Witness ==
  \E o \in OpIds :
    /\ ops[o].endpoint = "/exportvessel/v:4/vesseldetails"
    /\ ops[o].input = <<>>
    /\ "imo" \in DOMAIN ops[o].sent

\* C10: every request sent carries the client's non-empty credential as
\* apiKey next to the caller's parameters, on the first attempt and on every
\* retry; every construction with an empty or absent credential failed with
\* 'MarineTraffic API key is required' and an existing client holds a
\* non-empty credential.
C10_CredentialOnEveryRequest ==
  /\ \A o \in OpIds :
       ops[o].pc # "idle" =>
         /\ "apiKey" \in DOMAIN ops[o].sent
         /\ ops[o].sent.apiKey = apiClient.apiKey
         /\ Len(ops[o].sent.apiKey) > 0
         /\ \A k \in DOMAIN ops[o].params \ {"apiKey"} :
              k \in DOMAIN ops[o].sent /\ ops[o].sent[k] = ops[o].params[k]
  /\ ~apiClient.null => Len(apiClient.apiKey) > 0
  /\ \A c \in ctor :
       (~c.arg.defined \/ c.arg.str = <<>>) =>
         /\ ~c.ok
         /\ c.error = [mcp |-> TRUE, code |-> "InvalidParams",
                       message |-> <<"MarineTraffic API key is required">>]

C10_Witness ==
  /\ \E c \in ctor : c.arg.defined /\ c.arg.str = <<>>
  /\ \E c \in ctor : ~c.arg.defined
  /\ \E o \in OpIds :
       /\ ops[o].pc = "inflight"
       /\ ops[o].retryCount = 3
       /\ "apiKey" \in DOMAIN ops[o].params
       /\ ops[o].sent.apiKey = <<"k", "2">>

(***************************************************************************)
(* Properties of the entry points                                          *)
(***************************************************************************)
NineDigits(id) == Len(id) = 9 /\ \A i \in 1..Len(id) : id[i] \in Digit

SevenDigits(id) == Len(id) = 7 /\ \A i \in 1..Len(id) : id[i] \in Digit

ImoAndSevenDigits(id) ==
  /\ Len(id) = 10
  /\ SubSeq(id, 1, 3) = <<"I", "M", "O">>
  /\ \A i \in 4..10 : id[i] \in Digit

IdentifierKinds == {"get_vessel_position", "get_vessel_details", "vessel"}

\* the handler in progress or just finished was handed a vessel identifier
\* (for the resource: the URI matched and its identifier could be decoded)
HasIdentifier ==
  /\ call.pc # "idle"
  /\ ~apiClient.null
  /\ call.kind \in IdentifierKinds
  /\ call.kind = "vessel" =>
       MatchesVesselUri(call.arg) /\ DecodeURIComponent(call.arg).ok

EntryIdentifier ==
  IF call.kind = "vessel" THEN DecodeURIComponent(call.arg).str ELSE call.arg

EntryOps == IF call.kind = "vessel" THEN {1, 2} ELSE {1}

EntryEndpoints ==
  IF call.kind = "get_vessel_position" THEN <<"/exportvessel/v:5/position">>
  ELSE IF call.kind = "get_vessel_details" THEN <<"/exportvessel/v:4/vesseldetails">>
  ELSE <<"/exportvessel/v:5/position", "/exportvessel/v:4/vesseldetails">>

\* the identifier went out under `key` with value `value`, and only so
SentAs(key, value) ==
  \A o \in EntryOps :
    /\ ops[o].pc # "idle"
    /\ ops[o].endpoint = EntryEndpoints[o]
    /\ DOMAIN ops[o].sent = {key, "apiKey"}
    /\ ops[o].sent[key] = value

\* the handler threw its 'Invalid vessel identifier' error and nothing was sent
RefusedIdentifier ==
  /\ call.pc = "done"
  /\ ~call.outcome.ok
  /\ call.outcome.error.mcp
  /\ call.outcome.error.code =
       (IF call.kind = "vessel" THEN "InvalidRequest" ELSE "InvalidParams")
  /\ call.outcome.error \in {InvalidToolIdentifier, InvalidResourceIdentifier}
  /\ \A o \in OpIds : ops[o].pc = "idle" /\ ops[o].attempts = 0

\* C7 (as stated): at the position tool, the details tool and the vessel://
\* resource, 9 digits go out as mmsi, 7 digits and "IMO"+7 digits go out as
\* imo without the prefix, and every other identifier is refused with nothing
\* sent.
C7_EveryEntryPointSameRule ==
  HasIdentifier =>
    LET id == EntryIdentifier IN
    /\ NineDigits(id) => SentAs("mmsi", id)
    /\ SevenDigits(id) => SentAs("imo", id)
    /\ ImoAndSevenDigits(id) => SentAs("imo", SubSeq(id, 4, 10))
    /\ (~NineDigits(id) /\ ~SevenDigits(id) /\ ~ImoAndSevenDigits(id)) =>
         RefusedIdentifier

\* C7 (amended): as stated for 9 digits and for "IMO"+7 digits at all three
\* entry points; a bare 7-digit identifier goes out as imo at the vessel://
\* resource only, and is refused with nothing sent, like every other
\* identifier, at the position tool and the details tool.
C7_IdentifierRulePerEntryPoint ==
  HasIdentifier =>
    LET id == EntryIdentifier IN
    /\ NineDigits(id) => SentAs("mmsi", id)
    /\ ImoAndSevenDigits(id) => SentAs("imo", SubSeq(id, 4, 10))
    /\ (SevenDigits(id) /\ call.kind = "vessel") => SentAs("imo", id)
    /\ (SevenDigits(id) /\ call.kind # "vessel") => RefusedIdentifier
    /\ (~NineDigits(id) /\ ~SevenDigits(id) /\ ~ImoAndSevenDigits(id)) =>
         RefusedIdentifier

C7_Witness ==
  /\ call.kind = "get_vessel_details"
  /\ call.arg = <<"1", "0", "1", "0", "1", "0", "1">>
  /\ ~apiClient.null
  /\ RefusedIdentifier

\* C9: no request is sent with both mmsi and imo among its parameters,
\* whichever entry point it comes from.
C9_NeverBothMmsiAndImo ==
  \A o \in OpIds :
    ops[o].pc # "idle" => ~({"mmsi", "imo"} \subseteq DOMAIN ops[o].sent)

(***************************************************************************)
(* Properties of the area and search entry points                          *)
(***************************************************************************)
AreaKinds == {"get_vessels_in_area", "vessels_area"}

\* the handler in progress or just finished was handed an area query with
\* three numbers (for the resource: the URI matched, its three segments
\* could be decoded and each starts with a number)
HasAreaQuery ==
  /\ call.pc # "idle"
  /\ ~apiClient.null
  /\ call.kind \in AreaKinds
  /\ call.kind = "vessels_area" =>
       /\ MatchesAreaUri(call.arg)
       /\ \A k \in 1..3 :
            /\ DecodeURIComponent(call.arg[k]).ok
            /\ ~ParseFloat(DecodeURIComponent(call.arg[k]).str).nan

\* the numbers of the query, in tenths
AreaQuery ==
  IF call.kind = "vessels_area"
    THEN [lat |-> ParseFloat(DecodeURIComponent(call.arg[1]).str).val,
          lon |-> ParseFloat(DecodeURIComponent(call.arg[2]).str).val,
          radius |-> ParseFloat(DecodeURIComponent(call.arg[3]).str).val]
    ELSE [lat |-> call.arg.latitude, lon |-> call.arg.longitude,
          radius |-> call.arg.radius]

OutOfRange(q) ==
  \/ q.lat < -900 \/ q.lat > 900
  \/ q.lon < -1800 \/ q.lon > 1800
  \/ q.radius < 10 \/ q.radius > 1000

\* the handler threw an invalid-value error of its own and nothing was sent
RefusedQuery ==
  /\ call.pc = "done"
  /\ ~call.outcome.ok
  /\ call.outcome.error.mcp
  /\ call.outcome.error.code =
       (IF call.kind = "vessels_area" THEN "InvalidRequest" ELSE "InvalidParams")
  /\ \A o \in OpIds : ops[o].pc = "idle" /\ ops[o].attempts = 0

\* C11: the area tool and the area resource refuse, with nothing sent, every
\* query whose latitude is outside [-90,90], whose longitude is outside
\* [-180,180] or whose radius is outside [1,100]; every other query goes to
\* the area endpoint with center_lat, center_lon and radius as given.
C11_AreaQueryValidated ==
  HasAreaQuery =>
    LET q == AreaQuery IN
    IF OutOfRange(q)
      THEN RefusedQuery
      ELSE /\ ops[1].pc # "idle"
           /\ ops[1].endpoint = "/exportvessel/v:5/ps02"
           /\ ops[1].sent.center_lat = q.lat
           /\ ops[1].sent.center_lon = q.lon
           /\ ops[1].sent.radius = q.radius
           /\ ops[2].pc = "idle"

C11_Witness ==
  /\ call.kind = "vessels_area"
  /\ call.arg = << <<"3", "7", ".", "8">>, <<"-", "1", "2", "2", ".", "4">>, <<"1", "0">> >>
  /\ ops[1].pc = "inflight"
  /\ ops[1].sent.center_lat = 378
  /\ ops[1].sent.center_lon = -1224
  /\ ops[1].sent.radius = 100

SearchKeys == {"vessel_name", "mmsi", "imo", "ship_type"}

\* the search tool is in progress or has just finished, with a client
HasSearch ==
  call.pc # "idle" /\ ~apiClient.null /\ call.kind = "search_vessels"

\* the criteria went to the search endpoint
Forwarded ==
  ops[1].pc # "idle" /\ ops[1].endpoint = "/exportvessel/v:5/ps01"

NothingSent == \A o \in OpIds : ops[o].pc = "idle" /\ ops[o].attempts = 0

\* the search tool threw an InvalidParams error of its own and nothing was sent
RefusedSearch ==
  /\ call.pc = "done"
  /\ ~call.outcome.ok
  /\ call.outcome.error.mcp
  /\ call.outcome.error.code = "InvalidParams"
  /\ NothingSent

\* C12: a search whose criteria hold none of vessel_name, mmsi, imo and
\* ship_type is refused with the InvalidParams 'At least one search
\* parameter ...' error and nothing is sent.
C12_EmptySearchRefused ==
  (HasSearch /\ DOMAIN call.arg \cap SearchKeys = {}) =>
    /\ RefusedSearch
    /\ call.outcome.error.message =
         <<"At least one search parameter (vessel_name, mmsi, imo, or ship_type) must be provided">>

C12_Witness ==
  /\ HasSearch
  /\ DOMAIN call.arg = {}
  /\ RefusedSearch

WellFormedMmsi(args) == "mmsi" \in DOMAIN args => NineDigits(args.mmsi)

WellFormedImo(args) ==
  "imo" \in DOMAIN args => (SevenDigits(args.imo) \/ ImoAndSevenDigits(args.imo))

\* C13: a search that holds at least one of the four keys, whatever its
\* value, with mmsi and imo well-formed when given, is forwarded to the
\* search endpoint.
C13_AnyPresentKeyForwarded ==
  (/\ HasSearch
   /\ DOMAIN call.arg \cap SearchKeys # {}
   /\ WellFormedMmsi(call.arg)
   /\ WellFormedImo(call.arg)) => Forwarded

\* C14: in a search, an mmsi that is not exactly 9 digits or an imo that is
\* neither 7 digits nor "IMO"+7 digits is refused with nothing sent; a search
\* that is forwarded carries the imo without its "IMO" prefix and every
\* other criterion unchanged.
C14_SearchIdentifiersValidated ==
  HasSearch =>
    /\ (~WellFormedMmsi(call.arg) \/ ~WellFormedImo(call.arg)) => RefusedSearch
    /\ Forwarded =>
         /\ \A k \in DOMAIN call.arg \ {"imo"} : ops[1].sent[k] = call.arg[k]
         /\ "imo" \in DOMAIN call.arg =>
              ops[1].sent.imo =
                (IF ImoAndSevenDigits(call.arg.imo)
                   THEN SubSeq(call.arg.imo, 4, 10) ELSE call.arg.imo)

(***************************************************************************)
(* Properties of the combined vessel view                                  *)
(***************************************************************************)
\* getVesselResource has resumed after both of its fetches settled
ViewDone ==
  /\ call.kind = "vessel"
  /\ call.pc = "done"
  /\ ops[1].pc = "settled"
  /\ ops[2].pc = "settled"

BranchFailed(o) == ~ops[o].result.ok

\* C15: the read of the combined view fails exactly when both the position
\* and the details fetch failed, and with exactly one failed fetch the view
\* holds the payload of the other one.
C15_FailsOnlyWhenBothFail ==
  ViewDone =>
    /\ ~call.outcome.ok <=> (BranchFailed(1) /\ BranchFailed(2))
    /\ (BranchFailed(1) /\ ~BranchFailed(2)) =>
         (call.outcome.ok /\ call.outcome.data.details = ops[2].result.data)
    /\ (~BranchFailed(1) /\ BranchFailed(2)) =>
         (call.outcome.ok /\ call.outcome.data.position = ops[1].result.data)

\* C20: when both fetches of the combined view failed, whatever their
\* failures, the read fails with InvalidRequest 'No data found for vessel
\* with identifier' and nothing of the two failures is in it.
C20_BothFailedIsNoDataFound ==
  (ViewDone /\ BranchFailed(1) /\ BranchFailed(2)) =>
    /\ ~call.outcome.ok
    /\ call.outcome.error =
         McpError("InvalidRequest", <<"No data found for vessel with identifier">>)

C20_Witness ==
  /\ ViewDone
  /\ ops[1].result.error = McpError("InvalidRequest", <<ERROR_MESSAGES.INVALID_API_KEY>>)
  /\ BranchFailed(2)
  /\ ops[2].last.kind = "noResponse"
  /\ call.outcome.error.code = "InvalidRequest"
  /\ call.outcome.error.message = <<"No data found for vessel with identifier">>

(***************************************************************************)
(* Properties of the errors and of the server's client                     *)
(***************************************************************************)
\* a tool handler has resumed after its client operation settled
ToolDone ==
  /\ call.kind \in ToolKinds
  /\ call.pc = "done"
  /\ ops[1].pc = "settled"

\* the last attempt failed in the HTTP layer (an AxiosError)
HttpFailure(r) == IsHttpError(r) \/ r.kind = "noResponse"

Classified(error) ==
  /\ error.mcp
  /\ \/ error = McpError("InvalidRequest", <<ERROR_MESSAGES.INVALID_API_KEY>>)
     \/ error.code = "InternalError" /\ error.message[1] = ERROR_MESSAGES.API_ERROR
     \/ error = McpError("InternalError", <<ERROR_MESSAGES.NETWORK_ERROR>>)

\* C16: an operation whose last attempt failed in the HTTP layer is rejected
\* with one of the three classified errors, and the tool handler throws that
\* very error; every other failure after the operation started is thrown by
\* the handler as an InternalError.
C16_ClassifiedErrorsPassThrough ==
  /\ \A o \in OpIds :
       (ops[o].pc = "settled" /\ HttpFailure(ops[o].last)) =>
         (~ops[o].result.ok /\ Classified(ops[o].result.error))
  /\ ToolDone =>
       IF HttpFailure(ops[1].last)
         THEN ~call.outcome.ok /\ call.outcome.error = ops[1].result.error
         ELSE ~call.outcome.ok =>
                (call.outcome.error.mcp /\ call.outcome.error.code = "InternalError")

C16_Witness ==
  /\ ToolDone
  /\ call.kind = "get_vessels_in_area"
  /\ ops[1].last.kind = "noResponse"
  /\ call.outcome.error = McpError("InternalError", <<ERROR_MESSAGES.NETWORK_ERROR>>)

\* a request was refused for want of a credential, before anything else
RefusedNoCredential ==
  /\ call.pc = "done"
  /\ call.outcome.error =
       McpError("InvalidRequest", <<"MARINETRAFFIC_API_KEY environment variable is required">>)
  /\ NothingSent

\* C17: the server constructs at most one client, which then serves every
\* request with the credential it was built with; while no credential is
\* configured every request fails and no client is constructed.
C17_OneClientPerProcess ==
  /\ built <= 1
  /\ Cardinality(ctor) = built
  /\ apiClient.null <=> built = 0
  /\ ~apiClient.null =>
       /\ apiClient.apiKey = env.str
       /\ \A o \in OpIds : ops[o].pc # "idle" => ops[o].sent.apiKey = apiClient.apiKey
  /\ ~Truthy(env) =>
       /\ built = 0
       /\ ctor = {}
       /\ call.pc # "idle" => RefusedNoCredential

\* a request is served, with a retry, by the one client that was built
C17_Witness ==
  /\ built = 1
  /\ call.kind = "search_vessels"
  /\ ops[1].pc = "settled"
  /\ ops[1].sent.apiKey = env.str
  /\ ops[1].attempts = 2

(***************************************************************************)
(* Properties of operations in flight together                             *)
(***************************************************************************)
\* the position, counters, waits and result of an operation are what the
\* responses to its own attempts (log, last) make them
OwnResponsesOnly(op) ==
  op.pc # "idle" =>
    /\ op.attempts = Len(op.log) + (IF op.pc = "inflight" THEN 1 ELSE 0)
    /\ op.retryCount = Len(op.log) - (IF op.pc = "inflight" THEN 0 ELSE 1)
    /\ \A k \in 1..(Len(op.log) - 1) : op.log[k] = 429
    /\ Len(op.delays) = Len(op.log) - (IF op.pc = "settled" THEN 1 ELSE 0)
    /\ \A k \in 1..Len(op.delays) : op.delays[k] = retryDelay * Pow2(k - 1)
    /\ op.pc = "settled" <=>
         /\ Len(op.log) > 0
         /\ ~(/\ op.last.kind = "response"
              /\ op.last.status = 429
              /\ Len(op.log) <= maxRetries)
    /\ op.pc = "settled" =>
         op.result = (IF op.last.kind = "response" /\ op.last.status \in 200..299
                        THEN Resolved(op.last.data)
                        ELSE Rejected(ClassifyError(op.last)))

\* a step of one operation in flight leaves the other operation as it is
NoInterference ==
  \A o \in OpIds :
    (ops[o].pc # "idle" /\ ops'[o].pc # "idle" /\ ops'[o] # ops[o]) =>
      \A p \in OpIds \ {o} : ops'[p] = ops[p]

\* the client, once built, keeps its credential
ConfigurationKept == ~apiClient.null => apiClient' = apiClient

\* C18: with two operations in flight on the same client, every step changes
\* one operation only, the attempts, waits and outcome of each operation
\* follow from the responses to its own attempts, and the client's
\* credential is never changed after construction.
C18_OperationsIndependent ==
  /\ [](\A o \in OpIds : OwnResponsesOnly(ops[o]))
  /\ [][NoInterference]_vars
  /\ [][ConfigurationKept]_vars

\* one operation used all its retries while the other got its payload at once
C18_Witness ==
  /\ call.kind = "vessel"
  /\ ops[1].pc = "settled"
  /\ ops[1].log = <<429, 429, 429, 429>>
  /\ ops[2].pc = "settled"
  /\ ops[2].log = <<200>>
  /\ ops[2].result.ok

(***************************************************************************)
(* Termination of a logical request                                        *)
(***************************************************************************)
\* C19: when every attempt ends and every backoff timer fires, a logical
\* request that was started is eventually settled, with a payload or with an
\* error, whatever the responses are, 429 on every attempt included.
C19_EveryOperationSettles ==
  \A o \in OpIds :
    (ops[o].pc \in {"inflight", "backoff"}) ~>
      (ops[o].pc = "settled" /\ ops[o].result.settled)

\* 429 on every attempt: settled with an error after the fourth
C19_Witness ==
  /\ ops[1].pc = "settled"
  /\ ops[1].attempts = maxRetries + 1
  /\ \A k \in 1..Len(ops[1].log) : ops[1].log[k] = 429
  /\ ops[1].result.settled
  /\ ~ops[1].result.ok

====
